---- MODULE Spec2Model ----
(***************************************************************************)
(* RPC method dispatch of charl-kruger/rwlink: the @callable registry      *)
(* (src/lib/callable.ts), the AgentObject durable object (src/agent.ts),   *)
(* the actor routing middleware (src/worker.tsx) and the client proxy      *)
(* (src/lib/actorClient.ts), and the handlers of the Home page              *)
(* (src/app/pages/Home.tsx).                                               *)
(***************************************************************************)
EXTENDS Integers, Sequences, FiniteSets, TLC

VARIABLES
    classes,    \* class name -> its definition once evaluated, or NotDefined
    ownMeta,    \* class prototype -> id of the array stored as its OWN metadata (0: none)
    heap,       \* array id -> the MethodMetadata array object (arrays are shared by reference)
    lastCall,   \* the last direct dispatchRpcCall on an instance and its outcome
    mem,        \* actor id -> this.state of the live AgentObject instance
    stored,     \* actor id -> value under the storage key "state", or NotStored
    clock,      \* the time new Date() last returned
    last,       \* the last HTTP exchange: request, response, what ran, the proxy's outcome
    history,    \* actor id -> the successful pings and the log entries added since creation
    calls,      \* invocation of fetch -> its request, its position and its responses
    home        \* the Home component: its useState values and its calls in flight

regVars == <<classes, ownMeta, heap>>

actorVars == <<mem, stored, clock, last, history, calls, home>>

vars == <<classes, ownMeta, heap, lastCall, mem, stored, clock, last, history, calls, home>>

(***************************************************************************)
(* Classes and prototype chains                                            *)
(***************************************************************************)
NoClass == "<none>"

\* Actor comes from @cloudflare/actors; AgentObject is src/agent.ts. SubA and
\* SubB stand for application classes that extend AgentObject.
Classes == {"Actor", "AgentObject", "SubA", "SubB"}

Extensions == {"SubA", "SubB"}

ParentOf(c) ==
    CASE c = "AgentObject" -> "Actor"
      [] c \in Extensions -> "AgentObject"
      [] OTHER -> NoClass

\* The prototype chain of an instance of c, nearest first.
RECURSIVE Chain(_)
Chain(c) == IF c = NoClass THEN <<>> ELSE <<c>> \o Chain(ParentOf(c))

Range(s) == {s[i] : i \in DOMAIN s}

\* Member names used by the model. ping, getState, addMessage and
\* dangerousMethod are AgentObject's methods, state its field, fetch its entry
\* point; toString is inherited from Object.prototype; nope exists nowhere.
\* NoMethod is the value of `method` when the body carries none (undefined).
NoMethod == "<undefined>"

MemberNames == {"ping", "getState", "addMessage", "dangerousMethod", "state", "fetch", "toString"}

RequestNames == MemberNames \cup {"nope", NoMethod}

Kinds == {"absent", "method", "field"}

NotDefined == [defined |-> FALSE, members |-> [n \in MemberNames |-> "absent"], decorators |-> <<>>]

ClassDef(members, decorators) == [defined |-> TRUE, members |-> members, decorators |-> decorators]

ActorClass ==
    ClassDef([n \in MemberNames |-> IF n = "fetch" THEN "method" ELSE "absent"], <<>>)

AgentObjectClass ==
    ClassDef([n \in MemberNames |->
                 CASE n \in {"fetch", "ping", "getState", "addMessage", "dangerousMethod"} -> "method"
                   [] n = "state" -> "field"
                   [] OTHER -> "absent"],
             <<"ping", "getState", "addMessage">>)

(***************************************************************************)
(* reflect-metadata as used by callable.ts                                 *)
(***************************************************************************)
\* Reflect.getMetadata(CALLABLE_METHODS_KEY, target): the own metadata of the
\* target, else that of the nearest prototype that has one; 0 is undefined.
RECURSIVE GetMetadata(_, _)
GetMetadata(own, c) ==
    IF c = NoClass THEN 0
    ELSE IF own[c] # 0 THEN own[c]
    ELSE GetMetadata(own, ParentOf(c))

\* callable()(target, propertyKey, descriptor): get the existing array or a
\* new one, push {name, descriptor} onto THAT array, define it as the
\* target's own metadata.
Callable(reg, target, propertyKey) ==
    LET existing == GetMetadata(reg.own, target)
        entry    == [name |-> propertyKey, descriptor |-> <<target, propertyKey>>]
        id       == IF existing = 0 THEN Len(reg.heap) + 1 ELSE existing
        heap1    == IF existing = 0 THEN Append(reg.heap, <<entry>>)
                    ELSE [reg.heap EXCEPT ![id] = Append(@, entry)]
    IN  [own |-> [reg.own EXCEPT ![target] = id], heap |-> heap1]

\* The method decorators of one class body, applied in declaration order.
RECURSIVE ApplyDecorators(_, _, _)
ApplyDecorators(reg, c, names) ==
    IF names = <<>> THEN reg
    ELSE ApplyDecorators(Callable(reg, c, Head(names)), c, Tail(names))

\* getCallableMethods(target)
GetCallableMethods(reg, c) ==
    LET id == GetMetadata(reg.own, c) IN IF id = 0 THEN <<>> ELSE reg.heap[id]

\* isCallableMethod(target, methodName)
IsCallableMethod(reg, c, methodName) ==
    \E i \in DOMAIN GetCallableMethods(reg, c) : GetCallableMethods(reg, c)[i].name = methodName

(***************************************************************************)
(* Property lookup on an instance and dispatchRpcCall                      *)
(***************************************************************************)
NoHandle == <<>>

\* instance[name]: the nearest class of the chain that declares the member;
\* toString is found on Object.prototype at the end of every chain.
RECURSIVE LookupIn(_, _, _)
LookupIn(cls, chain, name) ==
    IF chain = <<>> THEN
        IF name = "toString" THEN [kind |-> "method", handle |-> <<"Object", name>>]
        ELSE [kind |-> "absent", handle |-> NoHandle]
    ELSE IF name \in MemberNames /\ cls[Head(chain)].members[name] # "absent" THEN
        [kind |-> cls[Head(chain)].members[name], handle |-> <<Head(chain), name>>]
    ELSE LookupIn(cls, Tail(chain), name)

Lookup(cls, c, name) == LookupIn(cls, Chain(c), name)

\* Params values a request body can carry: absent (undefined, defaulted to
\* []), an array, or a JSON value that the spread cannot iterate.
IsArray(params) == params.t = "array"

NotCallableMessage(method) ==
    <<"Method '", method, "' is not callable. Did you forget to add @callable()?">>

NotFoundMessage(method) == <<"Method '", method, "' not found on instance">>

SpreadMessage == <<"params is not iterable">>

\* The descriptor stored with the first entry of the registry for a name.
RegisteredDescriptor(reg, c, methodName) ==
    LET methods == GetCallableMethods(reg, c)
        i == CHOOSE k \in DOMAIN methods :
                 /\ methods[k].name = methodName
                 /\ \A j \in DOMAIN methods : methods[j].name = methodName => k <= j
    IN  methods[i].descriptor

\* The mutant of DispatchRpcCall that calls the function stored at registration.
DispatchRpcCallByDescriptor(reg, cls, c, method, params) ==
    IF ~IsCallableMethod(reg, c, method) THEN
        [kind |-> "throw", message |-> NotCallableMessage(method), handle |-> NoHandle, args |-> <<>>]
    ELSE IF Lookup(cls, c, method).kind # "method" THEN
        [kind |-> "throw", message |-> NotFoundMessage(method), handle |-> NoHandle, args |-> <<>>]
    ELSE IF ~IsArray(params) THEN
        [kind |-> "throw", message |-> SpreadMessage, handle |-> NoHandle, args |-> <<>>]
    ELSE
        [kind |-> "invoke", message |-> <<>>, handle |-> RegisteredDescriptor(reg, c, method),
         args |-> params.items]

\* The mutant of DispatchRpcCall that looks at the instance before the registry.
DispatchRpcCallInstanceFirst(reg, cls, c, method, params) ==
    IF Lookup(cls, c, method).kind # "method" THEN
        [kind |-> "throw", message |-> NotFoundMessage(method), handle |-> NoHandle, args |-> <<>>]
    ELSE IF ~IsCallableMethod(reg, c, method) THEN
        [kind |-> "throw", message |-> NotCallableMessage(method), handle |-> NoHandle, args |-> <<>>]
    ELSE IF ~IsArray(params) THEN
        [kind |-> "throw", message |-> SpreadMessage, handle |-> NoHandle, args |-> <<>>]
    ELSE
        [kind |-> "invoke", message |-> <<>>, handle |-> Lookup(cls, c, method).handle, args |-> params.items]

\* The mutant of DispatchRpcCall that calls the method without arguments.
DispatchRpcCallNoArgs(reg, cls, c, method, params) ==
    IF ~IsCallableMethod(reg, c, method) THEN
        [kind |-> "throw", message |-> NotCallableMessage(method), handle |-> NoHandle, args |-> <<>>]
    ELSE IF Lookup(cls, c, method).kind # "method" THEN
        [kind |-> "throw", message |-> NotFoundMessage(method), handle |-> NoHandle, args |-> <<>>]
    ELSE IF ~IsArray(params) THEN
        [kind |-> "throw", message |-> SpreadMessage, handle |-> NoHandle, args |-> <<>>]
    ELSE
        [kind |-> "invoke", message |-> <<>>, handle |-> Lookup(cls, c, method).handle, args |-> <<>>]

\* dispatchRpcCall(instance, method, params): what it decides before the
\* method body runs. kind "invoke" names the function instance[method] that
\* is called and its positional arguments.
DispatchRpcCall(reg, cls, c, method, params) ==
    IF ~IsCallableMethod(reg, c, method) THEN
        [kind |-> "throw", message |-> NotCallableMessage(method), handle |-> NoHandle, args |-> <<>>]
    ELSE IF Lookup(cls, c, method).kind # "method" THEN
        [kind |-> "throw", message |-> NotFoundMessage(method), handle |-> NoHandle, args |-> <<>>]
    ELSE IF ~IsArray(params) THEN
        [kind |-> "throw", message |-> SpreadMessage, handle |-> NoHandle, args |-> <<>>]
    ELSE
        [kind |-> "invoke", message |-> <<>>, handle |-> Lookup(cls, c, method).handle, args |-> params.items]

(***************************************************************************)
(* Values: JavaScript strings are tuples of their parts (template literals  *)
(* keep their holes), dates are tokens of the clock                        *)
(***************************************************************************)
Str(parts) == [str |-> parts]

Undefined == [undef |-> TRUE]

Obj(st) == [obj |-> st]

NullDate == <<>>

DateAt(t) == <<"Date", t>>

\* date.toISOString()
ToISOString(d) == <<"iso", d[2]>>

\* date.toLocaleString('en-US', {timeZone})
ToLocaleString(d, timeZone) == <<"locale", d[2], timeZone>>

\* The strings the model passes as arguments. "UTC" is a time zone the
\* runtime knows, "hello" is not (toLocaleString throws a RangeError).
Strings == {"hello", "UTC"}

ValidTimeZone(s) == s = "UTC"

\* The text of an argument inside a template literal; a missing argument is
\* undefined and prints as "undefined".
NoArg == "undefined"

Arg(args, i) == IF Len(args) >= i THEN args[i] ELSE NoArg

\* timezone is falsy when it is missing or the empty string.
Truthy(arg) == arg # NoArg /\ arg # ""

(***************************************************************************)
(* AgentObject: state and methods (src/agent.ts)                           *)
(***************************************************************************)
ActorIds == {"a", "b"}

LogCap == 10

\* private state: AgentState = { counter: 0, messages: [], lastUpdated: null }
DefaultState == [counter |-> 0, messages |-> <<>>, lastUpdated |-> NullDate]

NotStored == [absent |-> TRUE]

\* The mutant of SliceLast that keeps every entry.
SliceAll(s, n) == s

\* The mutant of SliceLast that keeps the oldest entries.
SliceFirst(s, n) == IF Len(s) <= n THEN s ELSE SubSeq(s, 1, n)

\* array.slice(-n)
SliceLast(s, n) == IF Len(s) <= n THEN s ELSE SubSeq(s, Len(s) - n + 1, Len(s))

PutErrorMessage == <<"storage put failed">>

GetErrorMessage == <<"storage get failed">>

RangeErrorMessage(tz) == <<"Invalid time zone specified: ", tz>>

Returns(st, sto, v) == [state |-> st, stored |-> sto, kind |-> "return", value |-> v, message |-> <<>>]

Throws(st, sto, m) == [state |-> st, stored |-> sto, kind |-> "throw", value |-> Undefined, message |-> m]

\* The mutant of Ping that answers before the storage holds the new state.
PingBeforePut(st, sto, args, now, io) ==
    LET timezone == Arg(args, 1)
        entry == <<"ping ", IF Truthy(timezone) THEN timezone ELSE "default", " at ", ToISOString(DateAt(now))>>
        st1 == [counter |-> st.counter + 1,
                lastUpdated |-> DateAt(now),
                messages |-> SliceLast(Append(st.messages, entry), LogCap)]
    IN  Returns(st1, sto, Str(<<"pong">>))

\* async ping(timezone?): replaces this.state, awaits the put, then builds
\* the reply (which throws for a time zone the runtime does not know).
Ping(st, sto, args, now, io) ==
    LET timezone == Arg(args, 1)
        entry == <<"ping ", IF Truthy(timezone) THEN timezone ELSE "default", " at ", ToISOString(DateAt(now))>>
        st1 == [counter |-> st.counter + 1,
                lastUpdated |-> DateAt(now),
                messages |-> SliceLast(Append(st.messages, entry), LogCap)]
    IN  IF ~io.putOk THEN Throws(st1, sto, PutErrorMessage)
        ELSE IF Truthy(timezone) THEN
            IF ValidTimeZone(timezone)
            THEN Returns(st1, st1, Str(<<"pong from ", timezone, " at ", ToLocaleString(DateAt(now), timezone)>>))
            ELSE Throws(st1, st1, RangeErrorMessage(timezone))
        ELSE Returns(st1, st1, Str(<<"pong">>))

\* The mutant of GetState that answers from memory only.
GetStateFromMemory(st, sto, args, now, io) == Returns(st, sto, Obj(st))

\* The mutant of GetState that writes this.state to an empty storage.
GetStatePersisting(st, sto, args, now, io) ==
    IF ~io.getOk THEN Throws(st, sto, GetErrorMessage)
    ELSE IF sto # NotStored THEN Returns(st, sto, Obj(sto))
    ELSE Returns(st, st, Obj(st))

\* async getState(): stored || this.state
GetState(st, sto, args, now, io) ==
    IF ~io.getOk THEN Throws(st, sto, GetErrorMessage)
    ELSE IF sto # NotStored THEN Returns(st, sto, Obj(sto))
    ELSE Returns(st, sto, Obj(st))

\* The mutant of AddMessage that does not write the new state to the storage.
AddMessageNoPut(st, sto, args, now, io) ==
    LET message == Arg(args, 1)
        entry == <<message, " at ", ToISOString(DateAt(now))>>
        st1 == [st EXCEPT !.messages = SliceLast(Append(st.messages, entry), LogCap)]
    IN  Returns(st1, sto, Str(<<"Message \"", message, "\" added successfully">>))

\* The mutant of AddMessage that also stamps lastUpdated.
AddMessageStamping(st, sto, args, now, io) ==
    LET message == Arg(args, 1)
        entry == <<message, " at ", ToISOString(DateAt(now))>>
        st1 == [st EXCEPT !.messages = SliceLast(Append(st.messages, entry), LogCap),
                          !.lastUpdated = DateAt(now)]
    IN  IF ~io.putOk THEN Throws(st1, sto, PutErrorMessage)
        ELSE Returns(st1, st1, Str(<<"Message \"", message, "\" added successfully">>))

\* async addMessage(message)
AddMessage(st, sto, args, now, io) ==
    LET message == Arg(args, 1)
        entry == <<message, " at ", ToISOString(DateAt(now))>>
        st1 == [st EXCEPT !.messages = SliceLast(Append(st.messages, entry), LogCap)]
    IN  IF ~io.putOk THEN Throws(st1, sto, PutErrorMessage)
        ELSE Returns(st1, st1, Str(<<"Message \"", message, "\" added successfully">>))

\* async dangerousMethod(): not decorated
DangerousMethod(st, sto, args, now, io) ==
    Returns(st, sto, Str(<<"This method should not be accessible">>))

\* Whether a function reads the clock (new Date()).
ReadsClock(handle) == handle \in {<<"AgentObject", "ping">>, <<"AgentObject", "addMessage">>}

\* The body behind a function handle. Functions other than AgentObject's own
\* methods (overrides in an extension, inherited ones) only return a value.
Invoke(handle, st, sto, args, now, io) ==
    CASE handle = <<"AgentObject", "ping">> -> Ping(st, sto, args, now, io)
      [] handle = <<"AgentObject", "getState">> -> GetState(st, sto, args, now, io)
      [] handle = <<"AgentObject", "addMessage">> -> AddMessage(st, sto, args, now, io)
      [] handle = <<"AgentObject", "dangerousMethod">> -> DangerousMethod(st, sto, args, now, io)
      [] OTHER -> Returns(st, sto, Str(<<"result of ", handle[1], ".", handle[2]>>))

(***************************************************************************)
(* JSON and HTTP                                                           *)
(***************************************************************************)
JsonNull == [null |-> TRUE]

\* What JSON.stringify followed by JSON.parse makes of a value: a Date
\* becomes its ISO string, everything else the model uses (null included)
\* is kept.
ToJson(v) ==
    IF "obj" \in DOMAIN v THEN
        [obj |-> [counter |-> v.obj.counter,
                  messages |-> v.obj.messages,
                  lastUpdated |-> IF v.obj.lastUpdated = NullDate THEN NullDate
                                  ELSE Str(<<ToISOString(v.obj.lastUpdated)>>)]]
    ELSE v

NoBody == [t |-> "none", has |-> {}, result |-> Undefined, error |-> Undefined, text |-> ""]

TextBody(text) == [NoBody EXCEPT !.t = "text", !.text = text]

\* The mutant of ResultEnvelope that also carries an error field.
ResultEnvelopeWithError(v) ==
    [NoBody EXCEPT !.t = "json", !.has = {"result", "error"}, !.result = ToJson(v), !.error = JsonNull]

\* JSON.stringify({ result }): a key whose value is undefined is left out.
ResultEnvelope(v) ==
    IF v = Undefined THEN [NoBody EXCEPT !.t = "json"]
    ELSE [NoBody EXCEPT !.t = "json", !.has = {"result"}, !.result = ToJson(v)]

\* JSON.stringify({ error: error.message }) for an Error with a message.
ErrorEnvelope(message) ==
    [NoBody EXCEPT !.t = "json", !.has = {"error"}, !.error = Str(message)]

Response(status, body) == [status |-> status, body |-> body]

\* response.ok
Ok(status) == status >= 200 /\ status <= 299

HttpMethods == {"GET", "POST"}

\* text.split('/') for the names and ids the model uses: "a/b" is the one
\* that contains a slash.
Segments(text) == IF text = "a/b" THEN <<"a", "b">> ELSE <<text>>

\* url.pathname.split('/') of `/actors/${actorName}/${actorId}/rpc`: for
\* "/actors/agent-object/a/rpc" it is <<"", "actors", "agent-object", "a", "rpc">>.
\* The template inserts name and id as they are, unencoded.
RpcPath(name, id) == <<"", "actors">> \o Segments(name) \o Segments(id) \o <<"rpc">>

\* url.pathname.startsWith('/actors/')
StartsWithActors(parts) == Len(parts) >= 3 /\ parts[2] = "actors"

\* url.pathname.endsWith("/rpc")
EndsWithRpc(parts) == Len(parts) >= 2 /\ parts[Len(parts)] = "rpc"

\* The mutant of IsRpcCall that does not look at the HTTP method.
IsRpcCallAnyMethod(req) == EndsWithRpc(req.path)

\* url.pathname.endsWith("/rpc") && request.method === "POST"
IsRpcCall(req) == EndsWithRpc(req.path) /\ req.httpMethod = "POST"

\* Request bodies: text that is not JSON, the JSON value null, or a JSON
\* object with an optional method and optional params.
GarbageBody == [t |-> "garbage", method |-> NoMethod, params |-> [t |-> "absent", items |-> <<>>]]

NullBody == [t |-> "null", method |-> NoMethod, params |-> [t |-> "absent", items |-> <<>>]]

ObjectBody(method, params) == [t |-> "object", method |-> method, params |-> params]

ArrayParams(items) == [t |-> "array", items |-> items]

AbsentParams == [t |-> "absent", items |-> <<>>]

NullParams == [t |-> "null", items |-> <<>>]

NumberParams == [t |-> "number", items |-> <<>>]

SyntaxErrorMessage == <<"Unexpected token in JSON">>

DestructureMessage == <<"Cannot destructure property 'method' of 'body' as it is null.">>

\* const { method, params = [] } = body: the default applies to undefined only.
ParamsOf(body) == IF body.params.t = "absent" THEN ArrayParams(<<>>) ELSE body.params

\* What one call of fetch did: its response, this.state and the storage after
\* it, whether dispatchRpcCall was called, the function it invoked, how the
\* try block ended (returned, or threw the message thrown), and whether the
\* clock was read. args are the arguments the function was called with and
\* value is what it returned (both set where a function is invoked).
FetchResult(resp, st, sto, dispatched, ran, settled, thrown, tick) ==
    [resp |-> resp, state |-> st, stored |-> sto, dispatched |-> dispatched, ran |-> ran,
     settled |-> settled, thrown |-> thrown, tick |-> tick, args |-> <<>>, value |-> Undefined]

\* The mutant of CatchResponse that keeps the default status.
CatchResponseOk(message) == Response(200, ErrorEnvelope(message))

\* The mutant of CatchResponse that lets the error escape: no response.
CatchResponseRethrow(message) == Response(0, NoBody)

\* catch (error): new Response(JSON.stringify({ error: error.message }), { status: 500 })
CatchResponse(message) == Response(500, ErrorEnvelope(message))

\* The mutant of SuccessResponse that puts the JSON text of the result into
\* the envelope.
SuccessResponseDoubleEncoded(v) == Response(200, ResultEnvelope(Str(<<"[json text]">>)))

\* new Response(JSON.stringify({ result })): the status defaults to 200.
SuccessResponse(v) == Response(200, ResultEnvelope(v))

\* fetch after the awaited method settled with r: the result envelope, or
\* the catch block for an error the method threw.
AfterInvoke(handle, r) ==
    IF r.kind = "throw" THEN
        FetchResult(CatchResponse(r.message), r.state, r.stored, TRUE, handle,
                    "threw", r.message, ReadsClock(handle))
    ELSE
        [FetchResult(SuccessResponse(r.value), r.state, r.stored, TRUE, handle,
                     "returned", <<>>, ReadsClock(handle)) EXCEPT !.value = r.value]

\* fetch after dispatchRpcCall decided d: the catch block for an error of the
\* dispatcher, else the call of the method.
AfterDispatch(d, st, sto, now, io) ==
    IF d.kind = "throw" THEN
        FetchResult(CatchResponse(d.message), st, sto, TRUE, NoHandle, "threw", d.message, FALSE)
    ELSE [AfterInvoke(d.handle, Invoke(d.handle, st, sto, d.args, now, io)) EXCEPT !.args = d.args]

\* async fetch(request) of an instance of class c whose this.state is st and
\* whose storage holds sto. now is the time new Date() returns during the
\* call; io says whether the storage operations of the call succeed.
AgentFetch(reg, cls, c, st, sto, req, now, io) ==
    IF IsRpcCall(req) THEN
        IF req.body.t = "garbage" THEN
            FetchResult(CatchResponse(SyntaxErrorMessage), st, sto, FALSE, NoHandle,
                        "threw", SyntaxErrorMessage, FALSE)
        ELSE IF req.body.t = "null" THEN
            FetchResult(CatchResponse(DestructureMessage), st, sto, FALSE, NoHandle,
                        "threw", DestructureMessage, FALSE)
        ELSE AfterDispatch(DispatchRpcCall(reg, cls, c, req.body.method, ParamsOf(req.body)),
                           st, sto, now, io)
    ELSE FetchResult(Response(200, TextBody("Hello from Actor!")), st, sto, FALSE, NoHandle,
                     "none", <<>>, FALSE)

(***************************************************************************)
(* The worker's middleware chain (src/worker.tsx)                          *)
(***************************************************************************)
ActorNotFound == Response(404, TextBody("Actor not found"))

LoginRedirect == Response(302, NoBody)

Page(name) == Response(200, TextBody(name))

\* A response that no AgentObject produced.
Unrouted(resp) == FetchResult(resp, DefaultState, NotStored, FALSE, NoHandle, "none", <<>>, FALSE)

\* Which actor the routing middleware forwards the request to, or NoActor.
NoActor == "<no actor>"

\* The mutant of RouteTarget that forwards whatever the class segment is.
RouteTargetAnyClass(req) ==
    IF StartsWithActors(req.path) /\ Len(req.path) >= 4
    THEN req.path[4] ELSE NoActor

\* pathParts.length >= 4 && pathParts[2] === 'agent-object' ? pathParts[3]
RouteTarget(req) ==
    IF StartsWithActors(req.path) /\ Len(req.path) >= 4 /\ req.path[3] = "agent-object"
    THEN req.path[4] ELSE NoActor

\* defineApp([...]): the session middleware, the actor routing middleware,
\* then page rendering. The result names the actor the request reached.
Worker(reg, cls, memory, storage, req, now, io) ==
    IF req.session = "unauthorized" THEN
        [target |-> NoActor, stage |-> "session",
         fetch |-> Unrouted(LoginRedirect)]
    ELSE IF StartsWithActors(req.path) THEN
        IF RouteTarget(req) # NoActor THEN
            [target |-> RouteTarget(req), stage |-> "actor",
             fetch |-> AgentFetch(reg, cls, "AgentObject", memory[RouteTarget(req)],
                                  storage[RouteTarget(req)], req, now, io)]
        ELSE
            [target |-> NoActor, stage |-> "actor",
             fetch |-> Unrouted(ActorNotFound)]
    ELSE
        [target |-> NoActor, stage |-> "render",
         fetch |-> Unrouted(Page("document"))]

(***************************************************************************)
(* The client proxy (src/lib/actorClient.ts)                               *)
(***************************************************************************)
\* The value of a JSON value in a condition.
JsonTruthy(v) ==
    CASE "str" \in DOMAIN v -> v.str # <<>>
      [] "obj" \in DOMAIN v -> TRUE
      [] "num" \in DOMAIN v -> v.num # 0
      [] OTHER -> FALSE

StatusString(status) ==
    CASE status = 200 -> "200" [] status = 204 -> "204" [] status = 302 -> "302"
      [] status = 404 -> "404" [] status = 500 -> "500" [] OTHER -> "other"

TransportFailedMessage(status) == <<"RPC call failed: ", StatusString(status), " ", "">>

\* The text of a JSON value inside a template literal.
JsonText(v) ==
    CASE "str" \in DOMAIN v -> v.str
      [] "num" \in DOMAIN v -> IF v.num = 0 THEN <<"0">> ELSE <<"1">>
      [] "null" \in DOMAIN v -> <<"null">>
      [] OTHER -> <<"[object Object]">>

RemoteErrorMessage(error) == <<"RPC error: ">> \o JsonText(error)

Resolve(v) == [kind |-> "resolve", value |-> v, message |-> <<>>]

Reject(m) == [kind |-> "reject", value |-> Undefined, message |-> m]

NoOutcome == [kind |-> "none", value |-> Undefined, message |-> <<>>]

\* The mutant of HandleResponse that skips the status check.
HandleResponseNoStatus(resp) ==
    IF resp.body.t # "json" THEN Reject(SyntaxErrorMessage)
    ELSE IF "error" \in resp.body.has /\ JsonTruthy(resp.body.error)
        THEN Reject(RemoteErrorMessage(resp.body.error))
    ELSE IF "result" \in resp.body.has THEN Resolve(resp.body.result)
    ELSE Resolve(Undefined)

\* callMethod after the transport answered: the status check, response.json(),
\* the error check, return result.result.
HandleResponse(resp) ==
    IF ~Ok(resp.status) THEN Reject(TransportFailedMessage(resp.status))
    ELSE IF resp.body.t = "jsonnull" THEN Reject(<<"Cannot read properties of null (reading 'error')">>)
    ELSE IF resp.body.t # "json" THEN Reject(SyntaxErrorMessage)
    ELSE IF "error" \in resp.body.has /\ JsonTruthy(resp.body.error)
        THEN Reject(RemoteErrorMessage(resp.body.error))
    ELSE IF "result" \in resp.body.has THEN Resolve(resp.body.result)
    ELSE Resolve(Undefined)

\* The mutant of ProxyMethods with a method for dangerousMethod.
ProxyMethodsWithDangerous == {"ping", "getState", "addMessage", "dangerousMethod"}

\* The mutant of RequestsIssued that sends a failed request once more.
RequestsIssuedWithRetry(resp) == IF resp.status >= 200 /\ resp.status <= 299 THEN 1 ELSE 2

\* The number of times callMethod calls fetch for one call, given the
\* response to its first request: there is no loop and no retry, every path
\* after the response returns or throws.
RequestsIssued(resp) == 1

\* The params array each proxy method builds from its argument (NoArg: the
\* argument was left out).
ProxyMethods == {"ping", "getState", "addMessage"}

ProxyParams(method, arg) ==
    CASE method = "ping" -> IF Truthy(arg) THEN <<arg>> ELSE <<>>
      [] method = "addMessage" -> <<arg>>
      [] OTHER -> <<>>

\* The request callMethod sends: POST /actors/{actorName}/{actorId}/rpc with
\* the body {method, params: params || []}.
ProxyRequest(actorName, actorId, method, arg, session) ==
    [path |-> RpcPath(actorName, actorId), httpMethod |-> "POST",
     body |-> ObjectBody(method, ArrayParams(ProxyParams(method, arg))), session |-> session]

\* The browser's fetch follows the redirect of the session middleware to the
\* login page.
Transport(resp) == IF resp.status = 302 THEN Page("login") ELSE resp

(***************************************************************************)
(* The Home page (src/app/pages/Home.tsx). A handler runs from its start   *)
(* to its await in one step, and from the settling of the awaited call to  *)
(* its end in another; the state updates of one such run are rendered      *)
(* together.                                                               *)
(***************************************************************************)
\* createActor("agent-object", "session-12345"): the instance the page is
\* bound to, named "a" here.
HomeActorId == "a"

\* The useState initial values; pending are the calls awaited by handlers,
\* event the last thing that happened to the component.
InitialHome ==
    [response |-> <<>>, state |-> JsonNull, isLoading |-> FALSE, timezone |-> "", message |-> "",
     pending |-> <<>>, event |-> "none"]

\* What the user can type into the two inputs.
TimezoneInputs == {"", "UTC"}

MessageInputs == {"", " ", "hello"}

\* message.trim() for the texts the model types: " " is the one that
\* consists of white space.
Trim(text) == IF text = " " THEN "" ELSE text

\* A call awaited by a handler.
Awaited(handler, method, arg) == [handler |-> handler, method |-> method, arg |-> arg]

\* handlePing up to its await: setIsLoading(true), then actor.ping(timezone)
\* or actor.ping().
PingStarted(h) ==
    LET h1 == [h EXCEPT !.isLoading = TRUE] IN
    [h1 EXCEPT !.pending = Append(@, Awaited("handlePing", "ping",
                                             IF h.timezone # "" THEN h.timezone ELSE NoArg))]

\* handleGetState up to its await.
GetStateStarted(h) ==
    LET h1 == [h EXCEPT !.isLoading = TRUE] IN
    [h1 EXCEPT !.pending = Append(@, Awaited("handleGetState", "getState", NoArg))]

\* handleAddMessage up to its await, or to its early return.
AddMessageStarted(h) ==
    IF Trim(h.message) = "" THEN [h EXCEPT !.response = <<"Please enter a message">>]
    ELSE LET h1 == [h EXCEPT !.isLoading = TRUE] IN
         [h1 EXCEPT !.pending = Append(@, Awaited("handleAddMessage", "addMessage", h.message))]

\* handlePing from the settling of actor.ping: try, catch, finally.
PingSettled(h, o) ==
    LET h1 == IF o.kind = "resolve" THEN [h EXCEPT !.response = JsonText(o.value)]
              ELSE [h EXCEPT !.response = <<"Error calling ping method: ">> \o o.message]
    IN  [h1 EXCEPT !.isLoading = FALSE]

\* handleGetState from the settling of actor.getState; reading counter of a
\* result that is undefined or null throws inside the try.
GetStateSettled(h, o) ==
    LET h1 == IF o.kind = "resolve" THEN
                  IF "obj" \in DOMAIN o.value THEN
                      [h EXCEPT !.state = o.value,
                                !.response = <<"State retrieved (counter: ", ToString(o.value.obj.counter), ")">>]
                  ELSE IF "str" \in DOMAIN o.value THEN
                      [h EXCEPT !.state = o.value,
                                !.response = <<"State retrieved (counter: ", "undefined", ")">>]
                  ELSE
                      [h EXCEPT !.state = o.value,
                                !.response = <<"Error getting state: ",
                                               "Cannot read properties of undefined (reading 'counter')">>]
              ELSE [h EXCEPT !.response = <<"Error getting state: ">> \o o.message]
    IN  [h1 EXCEPT !.isLoading = FALSE]

\* The mutant of AddMessageSettled that resets isLoading at the end of the
\* try block only.
AddMessageSettledInTry(h, o) ==
    IF o.kind = "resolve" THEN [h EXCEPT !.response = JsonText(o.value), !.message = "", !.isLoading = FALSE]
    ELSE [h EXCEPT !.response = <<"Error adding message: ">> \o o.message]

\* handleAddMessage from the settling of actor.addMessage.
AddMessageSettled(h, o) ==
    LET h1 == IF o.kind = "resolve" THEN [h EXCEPT !.response = JsonText(o.value), !.message = ""]
              ELSE [h EXCEPT !.response = <<"Error adding message: ">> \o o.message]
    IN  [h1 EXCEPT !.isLoading = FALSE]

\* The rest of the handler that awaited the call.
Settled(handler, h, o) ==
    CASE handler = "handlePing" -> PingSettled(h, o)
      [] handler = "handleGetState" -> GetStateSettled(h, o)
      [] OTHER -> AddMessageSettled(h, o)

\* A sequence without its i-th element.
Without(seq, i) == SubSeq(seq, 1, i - 1) \o SubSeq(seq, i + 1, Len(seq))

(***************************************************************************)
(* Bounds and inputs                                                       *)
(***************************************************************************)
\* The number of calls that read the clock (ping, addMessage) in one run.
MaxOps == 2

\* The number of @callable decorators in the body of one extension class.
MaxDecorators == 2

\* The number of log-appending calls made in a row on one instance.
MaxAppends == 11

\* The number of invocations of fetch that may be in flight together.
MaxCalls == 2

Calls == 1..MaxCalls

\* The ids proxies are bound to where two instances are observed.
ProxyIds == {"a", "b", "a/b"}

\* The actors the requests of Spec address.
SpecIds == {"a"}

\* The argument lists tried for each method name: ping without a time zone,
\* with a known and with an unknown one; addMessage with a message; any
\* other name without arguments and with one.
ArgLists(method) ==
    CASE method = "ping" -> {<<>>, <<"UTC">>, <<"hello">>}
      [] method = "addMessage" -> {<<"hello">>}
      [] OTHER -> {<<>>, <<"hello">>}

\* The params values tried for each method name: arrays, and for the names
\* of AgentObject's methods also a missing params, null and a number.
ParamsValues(method) ==
    {ArrayParams(l) : l \in ArgLists(method)}
    \cup (IF method \in {"ping", "getState", "dangerousMethod"} THEN {AbsentParams} ELSE {})
    \cup (IF method \in {"ping", "getState", "addMessage"} THEN {NullParams, NumberParams} ELSE {})

\* The method names tried in request bodies.
BodyNames == {"ping", "getState", "addMessage", "dangerousMethod", "state", "fetch", "nope", NoMethod}

Bodies ==
    {GarbageBody, NullBody}
    \cup UNION {{ObjectBody(m, p) : p \in ParamsValues(m)} : m \in BodyNames}

Sessions == {"ok", "unauthorized"}

IoOk == [putOk |-> TRUE, getOk |-> TRUE]

\* The storage operation of a call either succeeds or fails: ping and
\* addMessage put, getState gets, nothing else touches the storage.
IoChoices(method) ==
    CASE method \in {"ping", "addMessage"} -> {IoOk, [putOk |-> FALSE, getOk |-> TRUE]}
      [] method = "getState" -> {IoOk, [putOk |-> TRUE, getOk |-> FALSE]}
      [] OTHER -> {IoOk}

Request(path, httpMethod, body, session) ==
    [path |-> path, httpMethod |-> httpMethod, body |-> body, session |-> session]

\* RPC requests: every body, POSTed to the rpc path of an actor.
RpcRequests(ids) == {Request(RpcPath("agent-object", id), "POST", b, "ok") : id \in ids, b \in Bodies}

OtherPaths(ids) ==
    {<<"">>, <<"", "actors", "agent-object">>}
    \cup {<<"", "actors", "agent-object", id>> : id \in ids}
    \cup {RpcPath("other", id) : id \in ids}
    \cup {RpcPath("agent-object", id) : id \in ids}
    \cup {RpcPath("agent-object", id) \o <<"">> : id \in ids}

\* Requests that differ from an RPC request in path, method or session; they
\* carry a well-formed RPC body.
OtherRequests(ids) ==
    {Request(p, m, ObjectBody("ping", AbsentParams), s) :
        p \in OtherPaths(ids), m \in HttpMethods, s \in Sessions}

(***************************************************************************)
(* State machine                                                           *)
(***************************************************************************)
Registry == [own |-> ownMeta, heap |-> heap]

NoExchange ==
    [kind |-> "none", req |-> Request(<<"">>, "GET", GarbageBody, "ok"), call |-> <<>>,
     target |-> NoActor, stage |-> "none", resp |-> Response(0, NoBody),
     dispatched |-> FALSE, ran |-> NoHandle, settled |-> "none", thrown |-> <<>>,
     memChanged |-> FALSE, storedChanged |-> FALSE, outcome |-> NoOutcome,
     args |-> <<>>, value |-> Undefined, sent |-> 0]

\* An invocation of fetch: idle (not started), received (suspended at
\* await request.json()), put (its method is suspended at await put, with
\* the state it passed to put and the time it read), responded.
NoInvocation ==
    [pc |-> "idle", req |-> Request(<<"">>, "GET", GarbageBody, "ok"), io |-> IoOk, responses |-> 0,
     method |-> NoMethod, value |-> DefaultState, ticket |-> 0]

NoCall ==
    [cls |-> NoClass, method |-> NoMethod, settled |-> "none", thrown |-> <<>>, ran |-> NoHandle,
     changed |-> FALSE]

NoHistory == [pings |-> 0, entries |-> <<>>, failed |-> FALSE, lastAdd |-> NoArg]

InitialRegistry ==
    ApplyDecorators([own |-> [c \in Classes |-> 0], heap |-> <<>>], "AgentObject",
                    AgentObjectClass.decorators)

Init ==
    /\ classes = [c \in Classes |->
                     CASE c = "Actor" -> ActorClass
                       [] c = "AgentObject" -> AgentObjectClass
                       [] OTHER -> NotDefined]
    /\ ownMeta = InitialRegistry.own
    /\ heap = InitialRegistry.heap
    /\ lastCall = NoCall
    /\ mem = [id \in ActorIds |-> DefaultState]
    /\ stored = [id \in ActorIds |-> NotStored]
    /\ clock = 0
    /\ last = NoExchange
    /\ history = [id \in ActorIds |-> NoHistory]
    /\ calls = [i \in Calls |-> NoInvocation]
    /\ home = InitialHome

\* The history of an actor after a call: a successful ping or addMessage adds
\* its log entry (and a ping counts), a failed one is noted. lastAdd is the
\* message of the last call of ping or addMessage if that was a successful
\* addMessage, else NoArg.
HistoryAfter(h, f) ==
    IF ~ReadsClock(f.ran) THEN h
    ELSE IF f.settled = "returned" THEN
        [h EXCEPT !.pings = IF f.ran[2] = "ping" THEN @ + 1 ELSE @,
                  !.entries = Append(@, f.state.messages[Len(f.state.messages)]),
                  !.lastAdd = IF f.ran[2] = "addMessage" THEN Arg(f.args, 1) ELSE NoArg]
    ELSE [h EXCEPT !.failed = TRUE, !.lastAdd = NoArg]

\* One request through the worker, while fewer than limit calls have read
\* the clock; outcome is what the proxy makes of the response (NoOutcome for
\* a request that no proxy sent), sent the number of requests the client
\* issued for the call.
ExchangeUpTo(limit, kind, req, call, io) ==
    \E w \in {Worker(Registry, classes, mem, stored, req, clock + 1, io)} :
    \E f \in {w.fetch}, t \in {w.target} :
        /\ f.tick => clock < limit
        /\ clock' = IF f.tick THEN clock + 1 ELSE clock
        /\ mem' = IF t # NoActor THEN [mem EXCEPT ![t] = f.state] ELSE mem
        /\ stored' = IF t # NoActor THEN [stored EXCEPT ![t] = f.stored] ELSE stored
        /\ history' = IF t # NoActor THEN [history EXCEPT ![t] = HistoryAfter(@, f)] ELSE history
        /\ last' = [kind |-> kind, req |-> req, call |-> call, target |-> t, stage |-> w.stage,
                    resp |-> f.resp, dispatched |-> f.dispatched, ran |-> f.ran,
                    settled |-> f.settled, thrown |-> f.thrown,
                    memChanged |-> (t # NoActor /\ f.state # mem[t]),
                    storedChanged |-> (t # NoActor /\ f.stored # stored[t]),
                    outcome |-> IF kind = "proxy" THEN HandleResponse(Transport(f.resp)) ELSE NoOutcome,
                    args |-> f.args, value |-> f.value,
                    sent |-> IF kind = "proxy" THEN RequestsIssued(Transport(f.resp)) ELSE 1]
        /\ UNCHANGED <<classes, ownMeta, heap, lastCall>>

Exchange(kind, req, call, io) == ExchangeUpTo(MaxOps, kind, req, call, io) /\ UNCHANGED <<calls, home>>

\* Any client sends an RPC request.
RpcRequest(ids) ==
    \E req \in RpcRequests(ids) : \E io \in IoChoices(req.body.method) :
        /\ req.httpMethod = "POST"
        /\ Exchange("http", req, <<>>, io)

\* Any client sends another request.
OtherRequest(ids) ==
    \E req \in OtherRequests(ids) :
        /\ req \notin RpcRequests(ids)
        /\ Exchange("http", req, <<>>, IoOk)

\* createActor(actorName, actorId).ping / getState / addMessage
ProxyCall(ids) ==
    \E actorName \in {"agent-object", "other"}, id \in ids, method \in ProxyMethods,
       arg \in Strings \cup {NoArg}, session \in Sessions :
    \E io \in IoChoices(method) :
        /\ actorName = "other" => session = "ok"
        /\ method = "getState" => arg = NoArg
        /\ method = "addMessage" => arg = "hello"
        /\ Exchange("proxy", ProxyRequest(actorName, id, method, arg, session), <<method, arg, id>>, io)

\* The calls of a signed-in client whose storage operations succeed.
OkCalls == {<<"ping", NoArg>>, <<"getState", NoArg>>, <<"addMessage", "hello">>}

\* A signed-in client calls a proxy bound to one of ids; the storage works.
ProxyOk(ids, limit) ==
    \E id \in ids, c \in OkCalls :
        /\ ExchangeUpTo(limit, "proxy", ProxyRequest("agent-object", id, c[1], c[2], "ok"),
                        <<c[1], c[2], id>>, IoOk)
        /\ UNCHANGED <<calls, home>>

\* The platform evicts the instance and constructs it again: this.state is
\* the field initialiser's value, the storage is kept.
Reinstantiate(ids) ==
    \E id \in ids :
        /\ mem' = [mem EXCEPT ![id] = DefaultState]
        /\ last' = NoExchange
        /\ UNCHANGED <<classes, ownMeta, heap, lastCall, stored, clock, history, calls, home>>

Next ==
    \/ RpcRequest(SpecIds)
    \/ ProxyCall(SpecIds)
    \/ Reinstantiate(SpecIds)

Spec == Init /\ [][Next]_vars

(***************************************************************************)
(* The registry under class definitions: extension classes are evaluated,  *)
(* their decorators run, and dispatchRpcCall is called on instances        *)
(***************************************************************************)
\* The members an extension class may declare itself.
ExtensionNames == {"ping", "dangerousMethod"}

SeqsUpTo(S, n) == UNION {[1..k -> S] : k \in 0..n}

MembersOf(own) == [n \in MemberNames |-> IF n \in ExtensionNames THEN own[n] ELSE "absent"]

\* Whether @callable() was applied to name in the body of class c or of one
\* of its ancestors.
DecoratedFor(cls, c, name) ==
    \E i \in DOMAIN Chain(c) : name \in Range(cls[Chain(c)[i]].decorators)

\* The module that declares extension class c is evaluated: the class body
\* with its own members, then its method decorators in declaration order.
DefineClass ==
    \E c \in Extensions, own \in [ExtensionNames -> Kinds] :
    \E decorators \in SeqsUpTo({n \in ExtensionNames : own[n] = "method"}, MaxDecorators) :
    \E reg \in {ApplyDecorators(Registry, c, decorators)} :
        /\ ~classes[c].defined
        /\ classes[ParentOf(c)].defined
        /\ classes' = [classes EXCEPT ![c] = ClassDef(MembersOf(own), decorators)]
        /\ ownMeta' = reg.own
        /\ heap' = reg.heap
        /\ lastCall' = NoCall
        /\ UNCHANGED actorVars

\* The mutant of DirectDispatch in which a call of a name with no entry
\* registers the name.
DirectDispatchRegistering ==
    \E c \in Classes \ {"Actor"}, method \in BodyNames :
    \E f \in {AfterDispatch(DispatchRpcCall(Registry, classes, c, method, ArrayParams(<<>>)),
                            DefaultState, NotStored, clock + 1, IoOk)} :
    \E reg \in {IF IsCallableMethod(Registry, c, method) THEN Registry
                 ELSE Callable(Registry, c, method)} :
        /\ classes[c].defined
        /\ lastCall' = [cls |-> c, method |-> method, settled |-> f.settled, thrown |-> f.thrown,
                        ran |-> f.ran,
                        changed |-> (f.state # DefaultState \/ f.stored # NotStored)]
        /\ ownMeta' = reg.own
        /\ heap' = reg.heap
        /\ UNCHANGED classes
        /\ UNCHANGED actorVars

\* await dispatchRpcCall(instance, method, []) on a new instance of class c:
\* how it settled, the function whose body ran, and whether the instance's
\* state or storage changed.
DirectDispatch ==
    \E c \in Classes \ {"Actor"}, method \in BodyNames :
    \E f \in {AfterDispatch(DispatchRpcCall(Registry, classes, c, method, ArrayParams(<<>>)),
                            DefaultState, NotStored, clock + 1, IoOk)} :
        /\ classes[c].defined
        /\ lastCall' = [cls |-> c, method |-> method, settled |-> f.settled, thrown |-> f.thrown,
                        ran |-> f.ran,
                        changed |-> (f.state # DefaultState \/ f.stored # NotStored)]
        /\ UNCHANGED <<classes, ownMeta, heap>>
        /\ UNCHANGED actorVars

NextRegistry == DefineClass \/ DirectDispatch

SpecRegistry == Init /\ [][NextRegistry]_vars

(***************************************************************************)
(* The proxy on arbitrary transport responses                              *)
(***************************************************************************)
JsonValues == {Str(<<>>), Str(<<"boom">>), JsonNull, [num |-> 0], [num |-> 1]}

JsonBody(has, result, error) ==
    [NoBody EXCEPT !.t = "json", !.has = has,
                   !.result = IF "result" \in has THEN result ELSE Undefined,
                   !.error = IF "error" \in has THEN error ELSE Undefined]

\* Response bodies: JSON objects with any of the fields result and error, the
\* JSON value null, and text that is not JSON.
TransportBodies ==
    {JsonBody(has, r, e) : has \in SUBSET {"result", "error"}, r \in JsonValues, e \in JsonValues}
    \cup {[NoBody EXCEPT !.t = "jsonnull"], TextBody("Hello from Actor!")}

TransportStatuses == {200, 204, 404, 500}

\* callMethod receives a response from the transport.
ReceiveResponse ==
    \E status \in TransportStatuses, body \in TransportBodies :
        /\ last' = [NoExchange EXCEPT !.kind = "transport", !.resp = Response(status, body),
                                      !.outcome = HandleResponse(Response(status, body))]
        /\ UNCHANGED <<classes, ownMeta, heap, lastCall, mem, stored, clock, history, calls, home>>

NextProxy == ReceiveResponse

SpecProxy == Init /\ [][NextProxy]_vars

(***************************************************************************)
(* Invocations of fetch as the runtime schedules them. An invocation is    *)
(* suspended at await request.json(), where other invocations may run.     *)
(* From there to its response it runs without another invocation in        *)
(* between: the code between two awaits runs to completion, and while an   *)
(* awaited storage operation is pending the durable object's input gate    *)
(* delivers no other event.                                                *)
(***************************************************************************)
\* The requests of the invocations, each with the fate of its storage
\* operation: a body that is not JSON, ping, ping whose put fails, ping with
\* a time zone that cannot be formatted, getState whose get fails, and a
\* method that is not callable.
StepRequests ==
    {<<Request(RpcPath("agent-object", "a"), "POST", b, "ok"), IoOk>> :
        b \in {GarbageBody, ObjectBody("ping", ArrayParams(<<>>)),
               ObjectBody("ping", ArrayParams(<<"hello">>)),
               ObjectBody("dangerousMethod", AbsentParams)}}
    \cup {<<Request(RpcPath("agent-object", "a"), "POST", ObjectBody("ping", AbsentParams), "ok"),
            [putOk |-> FALSE, getOk |-> TRUE]>>,
          <<Request(RpcPath("agent-object", "a"), "POST", ObjectBody("getState", AbsentParams), "ok"),
            [putOk |-> TRUE, getOk |-> FALSE]>>}

\* A request arrives: fetch is invoked and suspends at await request.json().
Receive ==
    \E i \in Calls, r \in StepRequests :
        /\ calls[i].pc = "idle"
        /\ \A j \in Calls : j < i => calls[j].pc # "idle"
        /\ calls' = [calls EXCEPT ![i] = [NoInvocation EXCEPT !.pc = "received", !.req = r[1], !.io = r[2]]]
        /\ UNCHANGED <<classes, ownMeta, heap, lastCall, mem, stored, clock, last, history, home>>

\* The body of invocation i has arrived: the invocation runs to its response.
Handle(i) ==
    /\ calls[i].pc = "received"
    /\ ExchangeUpTo(MaxCalls, "http", calls[i].req, <<>>, calls[i].io)
    /\ calls' = [calls EXCEPT ![i] = [NoInvocation EXCEPT !.pc = "responded", !.responses = calls[i].responses + 1]]
    /\ UNCHANGED home

NextSteps == Receive \/ \E i \in Calls : Handle(i)

\* The runtime delivers the body of every request it accepted.
SpecSteps == Init /\ [][NextSteps]_vars /\ \A i \in Calls : WF_vars(Handle(i))

(***************************************************************************)
(* One instance that is never re-instantiated, under successful calls      *)
(***************************************************************************)
NextLog == ProxyOk(SpecIds, MaxAppends)

SpecLog == Init /\ [][NextLog]_vars

(***************************************************************************)
(* Two instances and the proxies bound to their ids                        *)
(***************************************************************************)
NextIsolation == ProxyOk(ProxyIds, MaxOps) \/ Reinstantiate(ActorIds)

SpecIsolation == Init /\ [][NextIsolation]_vars

(***************************************************************************)
(* RPC requests and every other request                                    *)
(***************************************************************************)
NextRouting == RpcRequest(SpecIds) \/ OtherRequest(SpecIds)

SpecRouting == Init /\ [][NextRouting]_vars

(***************************************************************************)
(* Mutating methods that interleave at the awaited storage write. A method *)
(* runs from its start to `await this.storage.raw?.put(...)` in one step   *)
(* (there is no await before it), is suspended there, and the storage      *)
(* applies the writes in the order they were issued. A second invocation   *)
(* may start while the first is suspended.                                 *)
(***************************************************************************)
\* The calls of ping and addMessage that interleave.
MutatingCalls ==
    {<<"ping", <<>>>>, <<"ping", <<"UTC">>>>, <<"addMessage", <<"hello">>>>, <<"addMessage", <<"UTC">>>>}

\* The mutant of Mutated that builds the new state on the stored one.
MutatedFromStorage(handle, st, sto, args, now) ==
    Invoke(handle, IF sto = NotStored THEN DefaultState ELSE sto, sto, args, now, IoOk).state

\* this.state as ping or addMessage leaves it when it reaches its await: the
\* value it passes to put.
Mutated(handle, st, sto, args, now) == Invoke(handle, st, sto, args, now, IoOk).state

\* Invocation i starts ping or addMessage on instance "a" and runs to its
\* await.
Begin(i) ==
    \E c \in MutatingCalls :
    \E st \in {Mutated(<<"AgentObject", c[1]>>, mem["a"], stored["a"], c[2], clock + 1)} :
        /\ calls[i].pc = "idle"
        /\ clock < MaxCalls
        /\ clock' = clock + 1
        /\ mem' = [mem EXCEPT !["a"] = st]
        /\ calls' = [calls EXCEPT ![i] = [NoInvocation EXCEPT !.pc = "put", !.method = c[1],
                                                              !.value = st, !.ticket = clock + 1]]
        /\ UNCHANGED <<classes, ownMeta, heap, lastCall, stored, last, history, home>>

\* The write of invocation i is applied, no write issued before it being
\* outstanding, and the invocation returns.
PutDone(i) ==
    /\ calls[i].pc = "put"
    /\ \A j \in Calls : calls[j].pc = "put" => calls[j].ticket >= calls[i].ticket
    /\ stored' = [stored EXCEPT !["a"] = calls[i].value]
    /\ calls' = [calls EXCEPT ![i].pc = "responded", ![i].responses = 1]
    /\ UNCHANGED <<classes, ownMeta, heap, lastCall, mem, clock, last, history, home>>

NextInterleave == \E i \in Calls : Begin(i) \/ PutDone(i)

SpecInterleave == Init /\ [][NextInterleave]_vars

(***************************************************************************)
(* The Home page and the actor behind it. A handler can start while        *)
(* another one awaits its call; every call a handler awaits is answered.   *)
(***************************************************************************)
\* The number of calls the handlers of the page await at a time.
MaxAwaited == 1

\* The number of calls of the page that read the clock at the actor.
MaxHomeOps == 1

\* The awaited calls that read the clock at the actor.
Ticking(pending) == Cardinality({i \in 1..Len(pending) : pending[i].method # "getState"})

\* onChange of the two inputs.
TypeInput ==
    \E tz \in TimezoneInputs, msg \in MessageInputs :
        /\ <<tz, msg>> # <<home.timezone, home.message>>
        /\ home' = [home EXCEPT !.timezone = tz, !.message = msg, !.event = "type"]
        /\ UNCHANGED <<classes, ownMeta, heap, lastCall, mem, stored, clock, last, history, calls>>

HandlePing ==
    /\ Len(home.pending) < MaxAwaited
    /\ clock + Ticking(home.pending) < MaxHomeOps
    /\ home' = [PingStarted(home) EXCEPT !.event = "handlePing"]
    /\ UNCHANGED <<classes, ownMeta, heap, lastCall, mem, stored, clock, last, history, calls>>

HandleGetState ==
    /\ Len(home.pending) < MaxAwaited
    /\ home' = [GetStateStarted(home) EXCEPT !.event = "handleGetState"]
    /\ UNCHANGED <<classes, ownMeta, heap, lastCall, mem, stored, clock, last, history, calls>>

HandleAddMessage ==
    /\ Len(home.pending) < MaxAwaited
    /\ clock + Ticking(home.pending) < MaxHomeOps
    /\ home' = [AddMessageStarted(home) EXCEPT !.event = "handleAddMessage"]
    /\ UNCHANGED <<classes, ownMeta, heap, lastCall, mem, stored, clock, last, history, calls>>

\* The i-th awaited call goes through the worker to the actor and settles,
\* and its handler runs to its end.
Settle(i) ==
    /\ i <= Len(home.pending)
    /\ \E session \in Sessions : \E io \in IoChoices(home.pending[i].method) :
          /\ session = "unauthorized" => io = IoOk
          /\ ExchangeUpTo(MaxHomeOps, "proxy",
                          ProxyRequest("agent-object", HomeActorId, home.pending[i].method,
                                       home.pending[i].arg, session),
                          <<home.pending[i].method, home.pending[i].arg, HomeActorId>>, io)
    /\ home' = [Settled(home.pending[i].handler, [home EXCEPT !.pending = Without(@, i)], last'.outcome)
                   EXCEPT !.event = "settle"]
    /\ UNCHANGED calls

SettleAny == \E i \in 1..MaxAwaited : Settle(i)

NextHome == TypeInput \/ HandlePing \/ HandleGetState \/ HandleAddMessage \/ SettleAny

SpecHome == Init /\ [][NextHome]_vars /\ WF_vars(SettleAny)

(***************************************************************************)
(* An instance whose log is one entry short of its capacity: the state of  *)
(* instance "a" after LogCap - 1 successful calls of addMessage("hello"),  *)
(* made at the times before the clock's start. From there every request    *)
(* of RpcRequest, failures included, and re-instantiations.                *)
(***************************************************************************)
PrefilledLog == [k \in 1..(LogCap - 1) |-> <<"hello", " at ", ToISOString(DateAt(k - LogCap))>>]

PrefilledState == [DefaultState EXCEPT !.messages = PrefilledLog]

InitNearFull ==
    /\ classes = [c \in Classes |->
                     CASE c = "Actor" -> ActorClass
                       [] c = "AgentObject" -> AgentObjectClass
                       [] OTHER -> NotDefined]
    /\ ownMeta = InitialRegistry.own
    /\ heap = InitialRegistry.heap
    /\ lastCall = NoCall
    /\ mem = [id \in ActorIds |-> IF id \in SpecIds THEN PrefilledState ELSE DefaultState]
    /\ stored = [id \in ActorIds |-> IF id \in SpecIds THEN PrefilledState ELSE NotStored]
    /\ clock = 0
    /\ last = NoExchange
    /\ history = [id \in ActorIds |->
                     IF id \in SpecIds
                     THEN [pings |-> 0, entries |-> PrefilledLog, failed |-> FALSE, lastAdd |-> "hello"]
                     ELSE NoHistory]
    /\ calls = [i \in Calls |-> NoInvocation]
    /\ home = InitialHome

NextNearFull == RpcRequest(SpecIds) \/ Reinstantiate(SpecIds)

SpecNearFull == InitNearFull /\ [][NextNearFull]_vars

(***************************************************************************)
(* Claims                                                                  *)
(***************************************************************************)
IsInfix(m, s) == \E i \in 0..(Len(s) - Len(m)) : SubSeq(s, i + 1, i + Len(m)) = m

GetStateHandle == <<"AgentObject", "getState">>

\* A value JSON can represent: a string, or an object whose fields are
\* numbers, arrays of strings and null (no Date, no undefined).
JsonRepresentable(v) ==
    \/ "str" \in DOMAIN v
    \/ "obj" \in DOMAIN v /\ v.obj.lastUpdated = NullDate

\* The last exchange was an RPC-shaped request that reached an AgentObject.
RpcShaped ==
    /\ last.kind \in {"http", "proxy"}
    /\ last.target # NoActor
    /\ EndsWithRpc(last.req.path)
    /\ last.req.httpMethod = "POST"

\* C1: dispatching a method name that was not registered with @callable for
\* the instance's class (or an ancestor) fails with the not-callable error,
\* runs no method body and leaves the instance's state and storage unchanged.
C1_UnregisteredNeverRuns ==
    (lastCall.cls # NoClass /\ ~DecoratedFor(classes, lastCall.cls, lastCall.method)) =>
        /\ lastCall.settled = "threw"
        /\ lastCall.thrown = NotCallableMessage(lastCall.method)
        /\ lastCall.ran = NoHandle
        /\ ~lastCall.changed

\* C2: a name is callable on the instances of a class iff it was decorated
\* with @callable in that class or in one of its ancestors.
C2_CallableIffDecorated ==
    \A c \in Classes, m \in MemberNames :
        classes[c].defined => (IsCallableMethod(Registry, c, m) <=> DecoratedFor(classes, c, m))

\* C3: after successful ping/addMessage calls and re-instantiations only,
\* getState returns a counter equal to the number of successful pings since
\* creation and a log equal to the most recent (up to 10) entries ever added.
C3_BuildsOnPersisted ==
    (last.ran = GetStateHandle /\ last.settled = "returned" /\ ~history[last.target].failed) =>
        /\ last.resp.body.result.obj.counter = history[last.target].pings
        /\ last.resp.body.result.obj.messages = SliceLast(history[last.target].entries, LogCap)

\* C4: getState returns the persisted state whenever something was
\* persisted, also on a re-instantiated object, and this.state otherwise.
C4_GetStatePrefersPersisted ==
    (last.ran = GetStateHandle /\ last.settled = "returned") =>
        last.resp.body.result =
            ToJson(Obj(IF stored[last.target] # NotStored THEN stored[last.target]
                       ELSE mem[last.target]))

\* C4 witness: getState answered on a re-instantiated object (this.state is
\* the default) whose storage holds another state.
C4_Witness ==
    /\ last.ran = GetStateHandle
    /\ last.settled = "returned"
    /\ mem[last.target] = DefaultState
    /\ stored[last.target] # NotStored
    /\ stored[last.target] # DefaultState

\* C5: an RPC request whose body is missing or not parseable as {method,
\* params} gets a 4xx response, no dispatch is attempted, nothing changes.
C5_MalformedIsClientError ==
    (RpcShaped /\ last.req.body.t \in {"garbage", "null"}) =>
        /\ last.resp.status >= 400
        /\ last.resp.status <= 499
        /\ ~last.dispatched
        /\ last.ran = NoHandle
        /\ ~last.memChanged
        /\ ~last.storedChanged

\* C6: when the server answers a proxy call with an error envelope carrying
\* message M, the proxy call fails with an error whose message carries M.
C6_ProxyCarriesServerMessage ==
    (last.kind = "proxy" /\ last.resp.body.t = "json" /\ "error" \in last.resp.body.has) =>
        /\ last.outcome.kind = "reject"
        /\ IsInfix(last.resp.body.error.str, last.outcome.message)

\* C7: for a transport response with a success status, callMethod fails with
\* the remote error carrying the error field's text whenever the body has an
\* error field, and returns the result field only when it has none.
C7_ErrorFieldAlwaysFails ==
    (last.kind = "transport" /\ Ok(last.resp.status) /\ last.resp.body.t = "json") =>
        IF "error" \in last.resp.body.has
        THEN last.outcome = Reject(RemoteErrorMessage(last.resp.body.error))
        ELSE last.outcome = Resolve(last.resp.body.result)

\* C8: a proxy call resolves only if the server ran the named method to
\* successful completion, and then with the method's result; in every other
\* case it rejects, with the status in the message for a non-success status.
C8_ProxyFailsLoudly ==
    last.kind = "proxy" =>
        /\ last.outcome.kind \in {"resolve", "reject"}
        /\ last.outcome.kind = "resolve" =>
            /\ last.settled = "returned"
            /\ last.ran = <<"AgentObject", last.call[1]>>
            /\ last.outcome.value # Undefined
            /\ last.outcome.value = last.resp.body.result
        /\ last.settled # "returned" => last.outcome.kind = "reject"
        /\ ~Ok(Transport(last.resp).status) =>
            /\ last.outcome.kind = "reject"
            /\ IsInfix(<<StatusString(Transport(last.resp).status)>>, last.outcome.message)

\* C8 witness: a proxy call whose method threw on the server was rejected.
C8_Witness ==
    /\ last.kind = "proxy"
    /\ last.ran # NoHandle
    /\ last.settled = "threw"
    /\ last.outcome.kind = "reject"

\* C9: the body of every response to an RPC-shaped request carries exactly
\* one of the fields result and error.
C9_ExactlyOneField ==
    RpcShaped => (last.resp.body.t = "json" /\ Cardinality(last.resp.body.has) = 1)

\* C9 witness: RPC-shaped requests answered after the method returned.
C9_Witness == RpcShaped /\ last.settled = "returned" /\ last.resp.body.has = {"result"}

\* C10: the response to an RPC-shaped request has a success status iff the
\* dispatched method completed, and is then the result envelope; every
\* failure gives status 500 and the error envelope with the thrown message.
C10_StatusMatchesOutcome ==
    RpcShaped =>
        /\ Ok(last.resp.status) <=> last.settled = "returned"
        /\ last.settled = "returned" =>
            (last.resp.status = 200 /\ last.resp.body.has = {"result"} /\ last.ran # NoHandle)
        /\ last.settled # "returned" =>
            /\ last.resp.status = 500
            /\ last.resp.body.has = {"error"}
            /\ last.resp.body.error = Str(last.thrown)

\* C10 witness: the dispatcher rejected the call and the answer was 500.
C10_Witness ==
    /\ RpcShaped
    /\ last.dispatched
    /\ last.ran = NoHandle
    /\ last.thrown = NotCallableMessage(last.req.body.method)
    /\ last.resp.status = 500

\* C11: every RPC-shaped request is answered with the result or the error
\* envelope, the error envelope whenever parsing, the dispatcher, the method
\* or the storage failed; no fault escapes fetch, and every invocation of
\* fetch eventually gives exactly one response.
C11_AlwaysAnswered ==
    /\ [](RpcShaped =>
            /\ last.resp.status # 0
            /\ last.resp.body.t = "json"
            /\ last.settled # "returned" =>
                (last.resp.body.has = {"error"} /\ last.resp.body.error = Str(last.thrown)))
    /\ [](\A i \in Calls : calls[i].responses = (IF calls[i].pc = "responded" THEN 1 ELSE 0))
    /\ \A i \in Calls : (calls[i].pc = "received") ~> (calls[i].pc = "responded")

\* C11 witness: an invocation whose storage write failed has been answered
\* with the error envelope.
C11_Witness ==
    /\ RpcShaped
    /\ \E i \in Calls : calls[i].pc = "responded" /\ calls[i].responses = 1
    /\ last.thrown = PutErrorMessage
    /\ last.resp.body.has = {"error"}

\* C12: on an instance that is not re-instantiated, after n successful
\* appends (ping or addMessage) the log is the last min(n, 10) entries
\* appended, oldest first; the k-th append carries the k-th time stamp.
C12_LogKeepsLastTen ==
    \A id \in SpecIds :
        LET entries == history[id].entries IN
        /\ \A k \in DOMAIN entries : entries[k][Len(entries[k])] = ToISOString(DateAt(k))
        /\ Len(mem[id].messages) = (IF Len(entries) < LogCap THEN Len(entries) ELSE LogCap)
        /\ mem[id].messages = SliceLast(entries, LogCap)
        /\ \A k \in DOMAIN mem[id].messages :
              mem[id].messages[k] = entries[Len(entries) - Len(mem[id].messages) + k]

\* C12 witness: the 11th append has evicted the oldest entry.
C12_Witness ==
    \E id \in SpecIds :
        /\ Len(history[id].entries) > LogCap
        /\ Len(mem[id].messages) = LogCap
        /\ mem[id].messages[1] = history[id].entries[Len(history[id].entries) - LogCap + 1]

\* C13: a getState that follows a successful addMessage(m), with no call of
\* ping or addMessage in between, returns a log whose last entry contains m;
\* the instance may have been re-instantiated before the addMessage or since.
C13_GetStateShowsMessage ==
    (last.ran = GetStateHandle /\ last.settled = "returned"
        /\ history[last.target].lastAdd # NoArg) =>
        LET messages == last.resp.body.result.obj.messages IN
        /\ Len(messages) > 0
        /\ IsInfix(<<history[last.target].lastAdd>>, messages[Len(messages)])

\* C13 witness: getState answered after ping, a re-instantiation and then a
\* successful addMessage.
C13_Witness ==
    /\ last.ran = GetStateHandle
    /\ last.settled = "returned"
    /\ history[last.target].lastAdd = "hello"
    /\ history[last.target].pings > 0
    /\ stored[last.target].counter = 0

InstanceFrame ==
    [][last'.kind # "none" =>
        \A id \in ActorIds : id # last'.target => (mem'[id] = mem[id] /\ stored'[id] = stored[id])]_vars

\* C18: a call through a proxy bound to id A changes this.state and the
\* storage of no instance with an id other than A.
C18_InstancesIsolated ==
    (last.kind = "proxy" /\ (last.memChanged \/ last.storedChanged)) => last.target = last.call[3]

\* C19: when fetch answers ping or addMessage with a success status, the
\* storage already holds the new state: it equals this.state and its log
\* ends with the entry of this call (a ping also set lastUpdated).
C19_PersistedBeforeSuccess ==
    (RpcShaped /\ ReadsClock(last.ran) /\ Ok(last.resp.status)) =>
        LET sto == stored[last.target] IN
        /\ sto # NotStored
        /\ sto = mem[last.target]
        /\ last.storedChanged
        /\ sto.messages # <<>>
        /\ sto.messages[Len(sto.messages)][Len(sto.messages[Len(sto.messages)])] = ToISOString(DateAt(clock))
        /\ last.ran[2] = "ping" => sto.lastUpdated = DateAt(clock)

\* C19 witness: a success response to ping on an instance whose storage held
\* an earlier state.
C19_Witness ==
    /\ RpcShaped
    /\ last.ran = <<"AgentObject", "ping">>
    /\ Ok(last.resp.status)
    /\ stored[last.target].counter = 2
    /\ Len(stored[last.target].messages) = 2

\* C20: fetch treats a request as an RPC call iff its path ends with /rpc
\* and its method is POST; every other request gets the fixed text with
\* status 200, no dispatch, and this.state and the storage are unchanged.
C20_RpcIffRpcPathAndPost ==
    (last.kind = "http" /\ last.target # NoActor) =>
        IF last.req.path[Len(last.req.path)] = "rpc" /\ last.req.httpMethod = "POST"
        THEN /\ last.resp.body.t = "json"
             /\ last.req.body.t = "object" => last.dispatched
        ELSE /\ last.resp = Response(200, TextBody("Hello from Actor!"))
             /\ ~last.dispatched
             /\ last.ran = NoHandle
             /\ ~last.memChanged
             /\ ~last.storedChanged

\* C20 witness: GET on the rpc path of an instance that holds a state got
\* the fallback response.
C20_Witness ==
    /\ last.kind = "http"
    /\ last.target # NoActor
    /\ last.req.httpMethod = "GET"
    /\ last.req.path = RpcPath("agent-object", last.target)
    /\ last.resp.status = 200
    /\ stored[last.target] # NotStored

\* C21: dispatchRpcCall consults the registry first and the instance second:
\* a name the registry does not hold for the class gets the not-callable
\* error whatever the instance has, the not-found error is given only for a
\* name the registry holds while the instance has no function of that name,
\* and in both cases no function runs and nothing changes.
C21_RegistryBeforeInstance ==
    lastCall.cls # NoClass =>
        IF ~IsCallableMethod(Registry, lastCall.cls, lastCall.method) THEN
            /\ lastCall.thrown = NotCallableMessage(lastCall.method)
            /\ lastCall.ran = NoHandle
            /\ ~lastCall.changed
        ELSE IF Lookup(classes, lastCall.cls, lastCall.method).kind # "method" THEN
            /\ lastCall.thrown = NotFoundMessage(lastCall.method)
            /\ lastCall.ran = NoHandle
            /\ ~lastCall.changed
        ELSE
            /\ lastCall.thrown \notin {NotCallableMessage(lastCall.method), NotFoundMessage(lastCall.method)}
            /\ lastCall.ran # NoHandle

\* C21 witness: a name the registry holds for the class of an instance that
\* has a field, not a function, of that name got the not-found error.
C21_Witness ==
    /\ lastCall.cls # NoClass
    /\ IsCallableMethod(Registry, lastCall.cls, lastCall.method)
    /\ Lookup(classes, lastCall.cls, lastCall.method).kind = "field"
    /\ lastCall.thrown = NotFoundMessage(lastCall.method)

\* C22: the registry changes only when a class is defined, and entries are
\* never removed: a step that defines no class leaves every array of the
\* registry as it was, and a name that is callable for a class stays so.
C22_RegistryOnlyGrows ==
    [][/\ classes' = classes => (ownMeta' = ownMeta /\ heap' = heap)
       /\ (ownMeta' # ownMeta \/ heap' # heap) =>
             \A c \in Classes, m \in RequestNames :
                 IsCallableMethod(Registry, c, m) =>
                     IsCallableMethod([own |-> ownMeta', heap |-> heap'], c, m)]_vars

\* C22 witness: dispatchRpcCall rejected a name on an instance of an
\* extension class after that class had added an entry to the registry.
C22_Witness ==
    /\ lastCall.cls \in Extensions
    /\ lastCall.thrown = NotCallableMessage(lastCall.method)
    /\ classes[lastCall.cls].decorators # <<>>
    /\ ~IsCallableMethod(Registry, lastCall.cls, lastCall.method)

\* C23: in every reachable state the log of this.state and the log in the
\* storage hold at most 10 entries, whatever calls succeeded or failed and
\* however often the instance was re-instantiated.
C23_LogNeverExceedsCap ==
    \A id \in ActorIds :
        /\ Len(mem[id].messages) <= LogCap
        /\ stored[id] # NotStored => Len(stored[id].messages) <= LogCap

\* C23 witness: both logs are full, the oldest entry has been evicted from
\* this.state, and the last call failed at its storage write.
C23_Witness ==
    \E id \in SpecIds :
        /\ Len(mem[id].messages) = LogCap
        /\ mem[id].messages[1] # PrefilledLog[1]
        /\ Len(stored[id].messages) = LogCap
        /\ last.thrown = PutErrorMessage

\* C24: the gate of dispatchRpcCall is by name and the call goes to the
\* function the instance has under that name now: for a name the registry
\* holds, an override in a subclass runs, decorated or not, and not the
\* function stored at registration.
C24_RunsCurrentMember ==
    (lastCall.cls # NoClass
        /\ IsCallableMethod(Registry, lastCall.cls, lastCall.method)
        /\ Lookup(classes, lastCall.cls, lastCall.method).kind = "method") =>
        lastCall.ran = Lookup(classes, lastCall.cls, lastCall.method).handle

\* C24 witness: an extension class overrides ping without decorating it, and
\* dispatching ping on its instance ran the override, while the registry
\* holds the function of AgentObject.
C24_Witness ==
    /\ lastCall.cls \in Extensions
    /\ lastCall.method = "ping"
    /\ "ping" \notin Range(classes[lastCall.cls].decorators)
    /\ lastCall.ran = <<lastCall.cls, "ping">>
    /\ RegisteredDescriptor(Registry, lastCall.cls, "ping") = <<"AgentObject", "ping">>

\* C25: an RPC request answered with the error envelope leaves this.state
\* and the storage of the instance as they were before the request.
C25_ErrorLeavesStateUnchanged ==
    (RpcShaped /\ last.resp.body.has = {"error"}) =>
        (~last.memChanged /\ ~last.storedChanged)

\* C26: when calls of ping and addMessage interleave at their awaited
\* writes, this.state holds the update of every call that has started (the
\* pings counted, one log entry per call, in the order the calls started),
\* and once all of them have completed the storage equals this.state.
C26_NoLostUpdate ==
    LET begun == {i \in Calls : calls[i].pc \in {"put", "responded"}} IN
    /\ mem["a"].counter = Cardinality({i \in begun : calls[i].method = "ping"})
    /\ Len(mem["a"].messages) = Cardinality(begun)
    /\ \A i \in begun :
          LET entry == mem["a"].messages[calls[i].ticket] IN
          entry[Len(entry)] = ToISOString(DateAt(calls[i].ticket))
    /\ (begun # {} /\ \A i \in begun : calls[i].pc = "responded") => stored["a"] = mem["a"]

\* C26 witness: two calls were suspended at their writes together and both
\* have completed.
C26_Witness ==
    /\ \A i \in 1..2 : calls[i].pc = "responded"
    /\ stored["a"] = mem["a"]
    /\ Len(mem["a"].messages) >= 2
    /\ stored["a"].counter = 1

\* C27: a ping that returns adds 1 to the counter of this.state, sets
\* lastUpdated to the time of the call and appends one entry to the log
\* (dropping the oldest entry of a full log); an addMessage that returns
\* appends one entry and leaves counter and lastUpdated as they were.
C27_MutationEffects ==
    [][(clock' # clock /\ last'.settled = "returned") =>
          LET t == last'.target
              before == mem[t]
              after == mem'[t]
              appended == /\ Len(after.messages) >= 1
                          /\ after.messages =
                                SliceLast(Append(before.messages, after.messages[Len(after.messages)]), LogCap)
          IN  /\ last'.ran = <<"AgentObject", "ping">> =>
                    /\ after.counter = before.counter + 1
                    /\ after.lastUpdated = DateAt(clock')
                    /\ appended
              /\ last'.ran = <<"AgentObject", "addMessage">> =>
                    /\ after.counter = before.counter
                    /\ after.lastUpdated = before.lastUpdated
                    /\ appended]_vars

\* C27 witness: an addMessage returned on an instance that a ping had
\* stamped, with the log at its capacity.
C27_Witness ==
    /\ last.ran = <<"AgentObject", "addMessage">>
    /\ last.settled = "returned"
    /\ mem[last.target].counter = 1
    /\ mem[last.target].lastUpdated = DateAt(1)
    /\ Len(mem[last.target].messages) = LogCap

\* C28: a call of getState, whether it returns or throws, changes neither
\* this.state nor the stored state of any instance, so a getState made
\* after it returns what a getState made in its place would have returned.
C28_GetStateReadOnly ==
    [][last'.ran = GetStateHandle =>
          /\ mem' = mem
          /\ stored' = stored
          /\ \A id \in ActorIds :
                GetState(mem'[id], stored'[id], <<>>, clock', IoOk).value
                    = GetState(mem[id], stored[id], <<>>, clock, IoOk).value]_vars

\* C28 witness: getState returned on an instance that has nothing stored and
\* whose this.state a failed write had changed.
C28_Witness ==
    /\ last.ran = GetStateHandle
    /\ last.settled = "returned"
    /\ stored[last.target] = NotStored
    /\ mem[last.target].counter = 1
    /\ ~last.memChanged
    /\ ~last.storedChanged

\* C29 as stated: every request whose path starts with /actors/ is answered
\* by the actor routing middleware: forwarded to the instance named by the
\* id segment iff the class segment is agent-object and the path has the
\* class and id segments, otherwise answered 404 "Actor not found" with no
\* instance reached or changed. A request whose session the session
\* middleware rejects is answered 302 before the routing middleware runs.
C29_ActorsPathAnsweredByRouting ==
    (last.kind = "http" /\ Len(last.req.path) >= 3 /\ last.req.path[2] = "actors") =>
        /\ last.stage = "actor"
        /\ IF Len(last.req.path) >= 4 /\ last.req.path[3] = "agent-object"
           THEN /\ last.target = last.req.path[4]
                /\ last.resp # ActorNotFound
           ELSE /\ last.resp = ActorNotFound
                /\ last.target = NoActor
                /\ ~last.memChanged
                /\ ~last.storedChanged

\* C29: every request whose path starts with /actors/ and whose session the
\* session middleware accepts is answered by the actor routing middleware
\* and never by page rendering: forwarded to the instance named by the id
\* segment iff the class segment is agent-object and the path has the class
\* and id segments, otherwise answered 404 "Actor not found" with no
\* instance reached or changed.
C29_AcceptedActorsPathAnsweredByRouting ==
    (/\ last.kind = "http"
     /\ Len(last.req.path) >= 3
     /\ last.req.path[2] = "actors"
     /\ last.req.session = "ok") =>
        /\ last.stage = "actor"
        /\ IF Len(last.req.path) >= 4 /\ last.req.path[3] = "agent-object"
           THEN /\ last.target = last.req.path[4]
                /\ last.resp # ActorNotFound
           ELSE /\ last.resp = ActorNotFound
                /\ last.target = NoActor
                /\ ~last.memChanged
                /\ ~last.storedChanged

\* C29 witness: a request of an accepted session for the rpc path of another
\* class, with id "a", was answered 404 while instance "a" holds a state.
C29_Witness ==
    /\ last.kind = "http"
    /\ last.req.session = "ok"
    /\ last.req.path = RpcPath("other", "a")
    /\ last.resp = ActorNotFound
    /\ stored["a"] # NotStored

\* C30: a handler of the Home page has set isLoading before it issues its
\* call, and the settling of the call, resolved or rejected, resets it, so
\* isLoading does not stay set: it is clear whenever no call is awaited and
\* whenever set it is cleared later. handleAddMessage issues a call only
\* for a message that is not blank, and the handlers change the message
\* input only by clearing it when addMessage resolved.
C30_LoadingResetAndMessageKept ==
    /\ [][/\ Len(home'.pending) > Len(home.pending) => home'.isLoading
          /\ Len(home'.pending) < Len(home.pending) => ~home'.isLoading
          /\ home'.event = "handleAddMessage" =>
                IF Trim(home.message) = ""
                THEN home'.pending = home.pending /\ home'.isLoading = home.isLoading
                ELSE home'.pending = Append(home.pending,
                                            Awaited("handleAddMessage", "addMessage", home.message))
          /\ (home'.event # "type" /\ home'.message # home.message) =>
                /\ home'.event = "settle"
                /\ last'.call[1] = "addMessage"
                /\ last'.outcome.kind = "resolve"
                /\ home'.message = ""]_vars
    /\ [](home.pending = <<>> => ~home.isLoading)
    /\ (home.isLoading ~> ~home.isLoading)

\* C30 witness: the call of handleAddMessage was rejected: isLoading is
\* reset, the message is still in the input and no call is awaited.
C30_Witness ==
    /\ home.event = "settle"
    /\ last.call[1] = "addMessage"
    /\ last.outcome.kind = "reject"
    /\ home.message = "hello"
    /\ ~home.isLoading
    /\ home.pending = <<>>

\* The names @callable() was applied to for class c, in the order of the
\* applications: those of its ancestors, whose bodies are evaluated first,
\* then those of its own body.
RECURSIVE AppliedFor(_, _)
AppliedFor(cls, c) ==
    IF c = NoClass THEN <<>> ELSE AppliedFor(cls, ParentOf(c)) \o cls[c].decorators

\* C31: for every class, getCallableMethods returns one entry per application
\* of @callable for that class, in registration order: the empty list when
\* there is none, both entries when a name was registered twice; and
\* isCallableMethod is true for every registered name.
C31_OneEntryPerApplication ==
    \A c \in Classes :
        classes[c].defined =>
            LET list == GetCallableMethods(Registry, c) IN
            /\ [i \in DOMAIN list |-> list[i].name] = AppliedFor(classes, c)
            /\ \A i \in DOMAIN list : IsCallableMethod(Registry, c, list[i].name)

====
